---------------------------- MODULE Spec2Model ----------------------------
(***************************************************************************)
(* State-machine model of the editor canvas (src/src/canvas.ts): the       *)
(* pointer / wheel handlers, the hit test, the affine transform and the    *)
(* render loop of class Canvas.                                            *)
(*                                                                         *)
(* JavaScript numbers are modelled as exact rationals extended with the    *)
(* IEEE-754 non-finite values: a number is a pair <<n, d>> in lowest terms *)
(* with d > 0, or <<1, 0>> (+Infinity), <<-1, 0>> (-Infinity), <<0, 0>>    *)
(* (NaN).  Rounding of finite results is not modelled.  The only divisors  *)
(* in the code are `scale` and `cross`, neither of which can be the        *)
(* negative zero, so a finite non-zero value divided by zero takes its own *)
(* sign.                                                                   *)
(***************************************************************************)
EXTENDS Integers, Sequences, FiniteSets, TLC

----------------------------------------------------------------------------
(* Numbers *)

Abs(i) ==
    IF i < 0 THEN -i ELSE i

Sign(i) ==
    IF i < 0 THEN -1 ELSE IF i > 0 THEN 1 ELSE 0

RECURSIVE GCD(_, _)
GCD(a, b) ==
    IF b = 0 THEN a ELSE GCD(b, a % b)

\* The number n/d (d # 0) in lowest terms with a positive denominator.
Norm(n, d) ==
    LET g == GCD(Abs(n), Abs(d))
        s == Sign(d)
    IN  <<(s * n) \div g, Abs(d) \div g>>

R(i) ==
    <<i, 1>>

NaN ==
    <<0, 0>>

PosInf ==
    <<1, 0>>

NegInf ==
    <<-1, 0>>

IsNaN(a) ==
    a = NaN

IsFinite(a) ==
    a[2] # 0

IsInf(a) ==
    a[2] = 0 /\ a[1] # 0

\* -a
RNeg(a) ==
    <<-a[1], a[2]>>

\* a + b
RAdd(a, b) ==
    IF IsNaN(a) \/ IsNaN(b) THEN NaN
    ELSE IF IsInf(a) /\ IsInf(b) THEN (IF a = b THEN a ELSE NaN)
    ELSE IF IsInf(a) THEN a
    ELSE IF IsInf(b) THEN b
    ELSE Norm(a[1] * b[2] + b[1] * a[2], a[2] * b[2])

\* a - b
RSub(a, b) ==
    RAdd(a, RNeg(b))

\* a * b
RMul(a, b) ==
    IF IsNaN(a) \/ IsNaN(b) THEN NaN
    ELSE IF IsInf(a) \/ IsInf(b)
         THEN (IF a[1] = 0 \/ b[1] = 0 THEN NaN
               ELSE <<Sign(a[1]) * Sign(b[1]), 0>>)
    ELSE Norm(a[1] * b[1], a[2] * b[2])

\* a / b
RDiv(a, b) ==
    IF IsNaN(a) \/ IsNaN(b) THEN NaN
    ELSE IF IsInf(a) THEN (IF IsInf(b) THEN NaN
                           ELSE IF b[1] < 0 THEN RNeg(a) ELSE a)
    ELSE IF IsInf(b) THEN R(0)
    ELSE IF b[1] = 0 THEN <<Sign(a[1]), 0>>
    ELSE Norm(a[1] * b[2], a[2] * b[1])

\* a <= b (false when either side is NaN)
RLe(a, b) ==
    IF IsNaN(a) \/ IsNaN(b) THEN FALSE
    ELSE IF IsInf(a) \/ IsInf(b)
         THEN a = b \/ a = NegInf \/ b = PosInf
    ELSE a[1] * b[2] <= b[1] * a[2]

\* a >= b
RGe(a, b) ==
    RLe(b, a)

----------------------------------------------------------------------------
(* Bounds and inputs *)

\* Input events and store operations handled in one behaviour (render frames
\* are not counted).
MaxSteps ==
    5

\* Transform inputs of the round-trip specification: scales n/d with
\* |n| <= MaxScaleNum and 1 <= d <= MaxScaleDen, offsets and world points
\* with integer coordinates of magnitude at most MaxCoord.
MaxScaleNum ==
    3

MaxScaleDen ==
    3

MaxCoord ==
    2

\* Pointer positions (offsetX, offsetY) of mouse events.
Points ==
    { [x |-> 15, y |-> 15], [x |-> 25, y |-> 25], [x |-> 30, y |-> 40] }

\* Wheel events (ctrlKey, deltaX, deltaY).
WheelEvents ==
    { [ctrlKey |-> TRUE,  deltaX |-> 5,  deltaY |-> 100],
      [ctrlKey |-> TRUE,  deltaX |-> 0,  deltaY |-> -100],
      [ctrlKey |-> FALSE, deltaX |-> 5,  deltaY |-> 5],
      [ctrlKey |-> FALSE, deltaX |-> -5, deltaY |-> 0] }

\* A node of the store: CanvasNode = BaseNode & Rect.
Node(id, x, y, w, h) ==
    [id |-> id, x |-> R(x), y |-> R(y), width |-> R(w), height |-> R(h)]

\* An edge of the store.
Edge(s, e) ==
    [startNode |-> s, endNode |-> e]

\* The stores a JSON text given to import can describe: two overlapping
\* nodes joined by an edge; the same with a second edge whose end node is
\* not in the store; one node that reuses id 2 at another place.
Stores ==
    { [nodes |-> <<Node(1, 10, 10, 20, 20), Node(2, 20, 20, 20, 20)>>,
       edges |-> <<Edge(1, 2)>>],
      [nodes |-> <<Node(1, 10, 10, 20, 20), Node(2, 20, 20, 20, 20)>>,
       edges |-> <<Edge(2, 3), Edge(1, 2)>>],
      [nodes |-> <<Node(2, 40, 20, 10, 10)>>,
       edges |-> <<>>] }

----------------------------------------------------------------------------
(* State *)

VARIABLES
    nodes,        \* store.nodes: the nodes in store order
    edges,        \* store.edges
    offset,       \* pan offset {x, y}
    scale,        \* zoom scale
    action,       \* PointerAction
    lastOffset,   \* drag origin: <<>> (undefined) or <<point>>
    selected,     \* selection: sequence of node ids
    hovered,      \* hover: sequence of node ids
    matrix,       \* forward matrix, 6 coefficients (matrix[i+1] is m[i])
    invMatrix,    \* cached inverse of its linear part, 4 coefficients
    cursor,       \* canvas.style.cursor
    framePending, \* number of pending requestAnimationFrame callbacks of render
    frame,        \* the calls of the last render frame, in order
    lastEvent,    \* the input event or store operation handled last
    calls,        \* the calls that operation made on the host and the store
    steps,        \* number of input events and store operations handled
    dragStart     \* history: <<>>, or <<the press point and the position the
                  \* primary selected node had at the press>> while only
                  \* move events and frames have followed that press

vars ==
    <<nodes, edges, offset, scale, action, lastOffset, selected, hovered,
      matrix, invMatrix, cursor, framePending, frame, lastEvent,
      calls, steps, dragStart>>

\* enum PointerAction
NONE ==
    "NONE"

ZOOM ==
    "ZOOM"

PAN ==
    "PAN"

MOVE ==
    "MOVE"

\* lastOffset?: Offset
Undefined ==
    <<>>

Defined(p) ==
    <<p>>

\* An Offset {x, y} of numbers.
Offset(x, y) ==
    [x |-> x, y |-> y]

\* One entry of calls: the callee and the index of the item it worked on.
Call(op, arg) ==
    <<op, arg>>

\* The record of an operation and its input.
Event(type, ctrlKey, deltaX, deltaY, x, y) ==
    [type |-> type, ctrlKey |-> ctrlKey, deltaX |-> deltaX,
     deltaY |-> deltaY, offsetX |-> x, offsetY |-> y]

----------------------------------------------------------------------------
(* Graph store (./store, an external collaborator of the canvas) *)

\* store.retrieveNode(id): <<node>>, or <<>> when no node has that id.
retrieveNode(ns, id) ==
    SelectSeq(ns, LAMBDA n : n.id = id)

\* store.updateNode(node): the node with that id is replaced.
updateNode(ns, node) ==
    [i \in 1..Len(ns) |-> IF ns[i].id = node.id THEN node ELSE ns[i]]

\* store.deleteNode(id): the node is removed, with the edges that name it.
storeDeleteNode(st, id) ==
    [nodes |-> SelectSeq(st.nodes, LAMBDA n : n.id # id),
     edges |-> SelectSeq(st.edges,
                         LAMBDA e : e.startNode # id /\ e.endNode # id)]

\* Store.fromJson(value): the store the text describes.
fromJson(value) ==
    value

----------------------------------------------------------------------------
(* Transform *)

\* Math.cos(rotate) and Math.sin(rotate); paint passes rotate = 0 only.
Cos(rotate) ==
    CASE rotate = 0 -> R(1)

Sin(rotate) ==
    CASE rotate = 0 -> R(0)

\* Variant of createMatrix: the inverse is the adjugate, not divided by cross.
createMatrixNoCross(x, y, s, rotate) ==
    LET m0 == RMul(Cos(rotate), s)
        m3 == m0
        m1 == RMul(Sin(rotate), s)
        m2 == RNeg(m1)
    IN  [matrix    |-> <<m0, m1, m2, m3, x, y>>,
         invMatrix |-> <<m3, RNeg(m1), RNeg(m2), m0>>]

\* createMatrix(x, y, scale, rotate): the forward matrix and the inverse of
\* its linear part.
createMatrix(x, y, s, rotate) ==
    LET m0 == RMul(Cos(rotate), s)
        m3 == m0
        m1 == RMul(Sin(rotate), s)
        m2 == RNeg(m1)
        cross == RSub(RMul(m0, m3), RMul(m1, m2))
    IN  [matrix    |-> <<m0, m1, m2, m3, x, y>>,
         invMatrix |-> <<RDiv(m3, cross), RDiv(RNeg(m1), cross),
                         RDiv(RNeg(m2), cross), RDiv(m0, cross)>>]

\* toWorld(x, y) under forward matrix m and cached inverse im.
toWorld(m, im, x, y) ==
    LET xx == RSub(x, m[5])
        yy == RSub(y, m[6])
    IN  Offset(RAdd(RMul(xx, im[1]), RMul(yy, im[3])),
               RAdd(RMul(xx, im[2]), RMul(yy, im[4])))

----------------------------------------------------------------------------
(* Hit test and primary nodes *)

\* Variant of the containment test: the bounds are exclusive.
overlapsStrict(localOffset, node) ==
    /\ ~RLe(localOffset.x, node.x)
    /\ ~RGe(localOffset.x, RAdd(node.x, node.width))
    /\ ~RLe(localOffset.y, node.y)
    /\ ~RGe(localOffset.y, RAdd(node.y, node.height))

\* The containment test of getSelection: the offset overlaps the node rect.
overlaps(localOffset, node) ==
    /\ RGe(localOffset.x, node.x)
    /\ RLe(localOffset.x, RAdd(node.x, node.width))
    /\ RGe(localOffset.y, node.y)
    /\ RLe(localOffset.y, RAdd(node.y, node.height))

\* getSelection(target) over store nodes ns, under matrix m and inverse im.
getSelection(ns, m, im, target) ==
    LET localOffset == toWorld(m, im, target.x, target.y)
        hits == SelectSeq(ns, LAMBDA node : overlaps(localOffset, node))
    IN  [i \in 1..Len(hits) |-> hits[i].id]

\* Variant of selectedNode: the first element of the selection is primary.
selectedNodeFirst(sel, ns) ==
    IF Len(sel) = 0 THEN <<>>
    ELSE retrieveNode(ns, sel[1])

\* selectedNode(): <<node>> or <<>> (undefined).
selectedNode(sel, ns) ==
    IF Len(sel) = 0 THEN <<>>
    ELSE retrieveNode(ns, sel[Len(sel)])

\* hoveredNode(): <<node>> or <<>> (undefined).
hoveredNode(hov, ns) ==
    IF Len(hov) = 0 THEN <<>>
    ELSE retrieveNode(ns, hov[Len(hov)])

\* moveNode(node, delta) at scale s: the store's nodes afterwards.
moveNode(ns, node, delta, s) ==
    updateNode(ns, [node EXCEPT !.x = RAdd(node.x, RDiv(delta.x, s)),
                                !.y = RAdd(node.y, RDiv(delta.y, s))])

----------------------------------------------------------------------------
(* Render loop *)

\* renderEdge(edge): TRUE when the edge is drawn; FALSE when reading the
\* geometry of an end node that retrieveNode did not find throws a TypeError.
renderEdge(edge, ns) ==
    /\ retrieveNode(ns, edge.startNode) # <<>>
    /\ retrieveNode(ns, edge.endNode) # <<>>

\* renderEdges(): the edges drawn, in order, up to the first one that throws.
RECURSIVE renderEdges(_, _, _)
renderEdges(es, ns, i) ==
    IF i > Len(es) THEN <<>>
    ELSE IF renderEdge(es[i], ns)
         THEN <<Call("renderEdge", i)>> \o renderEdges(es, ns, i + 1)
    ELSE <<Call("TypeError", i)>>

\* renderNodes(): every node is drawn, in store order.
renderNodes(ns) ==
    [i \in 1..Len(ns) |-> Call("renderNode", i)]

\* An operation's calls end with an uncaught exception.
threw(cs) ==
    cs # <<>> /\ cs[Len(cs)][1] = "TypeError"

\* paint(): the calls of one frame.
paint(es, ns) ==
    LET head == <<Call("setTransform", 0), Call("clearRect", 0),
                  Call("renderBackground", 0), Call("createMatrix", 0),
                  Call("setTransform", 1)>>
        drawn == renderEdges(es, ns, 1)
    IN  IF threw(drawn) THEN head \o drawn
        ELSE head \o drawn \o renderNodes(ns)

\* The call schedules a frame.
scheduled(c) ==
    c[1] = "requestAnimationFrame"

\* render(): paint, then schedule the next frame.
renderCalls(es, ns) ==
    LET painted == paint(es, ns)
    IN  IF threw(painted) THEN painted
        ELSE Append(painted, Call("requestAnimationFrame", 0))

----------------------------------------------------------------------------
(* Program constants *)

\* scale -= e.deltaY * 0.01
ZoomFactor ==
    Norm(1, 100)

\* offset -= e.delta * 2
PanFactor ==
    2

----------------------------------------------------------------------------
(* Initial state: what the constructor leaves (an empty store, the first   *)
(* frame painted by init() and the next one scheduled).                    *)

Init ==
    /\ nodes = <<>>
    /\ edges = <<>>
    /\ offset = Offset(R(0), R(0))
    /\ scale = R(1)
    /\ action = NONE
    /\ lastOffset = Undefined
    /\ selected = <<>>
    /\ hovered = <<>>
    /\ matrix = createMatrix(R(0), R(0), R(1), 0).matrix
    /\ invMatrix = createMatrix(R(0), R(0), R(1), 0).invMatrix
    /\ cursor = ""
    /\ framePending = Len(SelectSeq(renderCalls(<<>>, <<>>), scheduled))
    /\ frame = renderCalls(<<>>, <<>>)
    /\ lastEvent = Event("constructor", FALSE, 0, 0, 0, 0)
    /\ calls = <<>>
    /\ steps = 0
    /\ dragStart = <<>>

----------------------------------------------------------------------------
(* Operations *)

\* import(value)
import ==
    \E value \in Stores :
        /\ steps < MaxSteps
        /\ nodes' = fromJson(value).nodes
        /\ edges' = fromJson(value).edges
        /\ lastEvent' = Event("import", FALSE, 0, 0, 0, 0)
        /\ calls' = <<>>
        /\ steps' = steps + 1
        /\ dragStart' = <<>>
        /\ UNCHANGED <<offset, scale, action, lastOffset, selected, hovered,
                       matrix, invMatrix, cursor, framePending, frame>>

\* Variant of clear(): the selection is left as it is.
clearKeeps(sel) ==
    sel

\* clear(): the selection afterwards.
clear(sel) ==
    <<>>

\* deleteNode(node), for a node of the store
deleteNode ==
    \E i \in 1..Len(nodes) :
        LET st == storeDeleteNode([nodes |-> nodes, edges |-> edges],
                                  nodes[i].id)
        IN  /\ steps < MaxSteps
            /\ nodes' = st.nodes
            /\ edges' = st.edges
            /\ selected' = clear(selected)
            /\ lastEvent' = Event("deleteNode", FALSE, 0, 0, nodes[i].id, 0)
            /\ calls' = <<Call("onUpdate", 0)>>
            /\ steps' = steps + 1
            /\ dragStart' = <<>>
            /\ UNCHANGED <<offset, scale, action, lastOffset, hovered,
                           matrix, invMatrix, cursor, framePending, frame>>

\* Variant of onWheel: the zoom step is added to the scale.
wheelScaleAdds(s, e) ==
    IF e.ctrlKey THEN RAdd(s, RMul(R(e.deltaY), ZoomFactor)) ELSE s

\* onWheel(e): the scale afterwards.
wheelScale(s, e) ==
    IF e.ctrlKey THEN RSub(s, RMul(R(e.deltaY), ZoomFactor)) ELSE s

\* Variant of onWheel: the pan step is the bare delta.
wheelOffsetUnscaled(o, e) ==
    IF e.ctrlKey THEN o
    ELSE Offset(RSub(o.x, R(e.deltaX)), RSub(o.y, R(e.deltaY)))

\* onWheel(e): the offset afterwards.
wheelOffset(o, e) ==
    IF e.ctrlKey THEN o
    ELSE Offset(RSub(o.x, R(e.deltaX * PanFactor)),
                RSub(o.y, R(e.deltaY * PanFactor)))

\* onWheel(e)
onWheel ==
    \E e \in WheelEvents :
        /\ steps < MaxSteps
        /\ scale' = wheelScale(scale, e)
        /\ offset' = wheelOffset(offset, e)
        /\ action' = NONE
        /\ lastEvent' = Event("wheel", e.ctrlKey, e.deltaX, e.deltaY, 0, 0)
        /\ calls' = <<Call("onUpdate", 0)>>
        /\ steps' = steps + 1
        /\ dragStart' = <<>>
        /\ UNCHANGED <<nodes, edges, lastOffset, selected, hovered,
                       matrix, invMatrix, cursor, framePending, frame>>

\* Variant of onMouseDown: the hits are pushed without the clear.
mouseDownSelectionNoClear(sel, ns, m, im, p) ==
    sel \o getSelection(ns, m, im, p)

\* onMouseDown(e): the selection afterwards (clear, then push the hits).
mouseDownSelection(sel, ns, m, im, p) ==
    clear(sel) \o getSelection(ns, m, im, p)

\* The history record of a press at p whose primary selected node is prim.
pressRecord(p, prim) ==
    IF prim = <<>> THEN <<>>
    ELSE <<[pt |-> p, x |-> prim[1].x, y |-> prim[1].y]>>

\* onMouseDown(e)
onMouseDown ==
    \E pt \in Points :
        LET p == Offset(R(pt.x), R(pt.y))
        IN  /\ steps < MaxSteps
            /\ lastOffset' = Defined(p)
            /\ action' = MOVE
            /\ selected' = mouseDownSelection(selected, nodes, matrix,
                                              invMatrix, p)
            /\ lastEvent' = Event("mousedown", FALSE, 0, 0, pt.x, pt.y)
            /\ calls' = <<Call("onUpdate", 0), Call("onUpdate", 0)>>
            /\ steps' = steps + 1
            /\ dragStart' = pressRecord(p, selectedNode(selected', nodes))
            /\ UNCHANGED <<nodes, edges, offset, scale, hovered,
                           matrix, invMatrix, cursor, framePending, frame>>

\* Variant of onMouseUp: the release forgets the last offset but leaves
\* the mode as it is.
onMouseUpKeepsMode ==
    /\ steps < MaxSteps
    /\ lastOffset' = Undefined
    /\ lastEvent' = Event("mouseup", FALSE, 0, 0, 0, 0)
    /\ calls' = <<>>
    /\ steps' = steps + 1
    /\ dragStart' = <<>>
    /\ UNCHANGED <<nodes, edges, offset, scale, action, selected, hovered,
                   matrix, invMatrix, cursor, framePending, frame>>

\* Variant of onMouseUp: the release also clears the selection.
onMouseUpClears ==
    /\ steps < MaxSteps
    /\ lastOffset' = Undefined
    /\ action' = NONE
    /\ selected' = clear(selected)
    /\ lastEvent' = Event("mouseup", FALSE, 0, 0, 0, 0)
    /\ calls' = <<Call("onUpdate", 0)>>
    /\ steps' = steps + 1
    /\ dragStart' = <<>>
    /\ UNCHANGED <<nodes, edges, offset, scale, hovered,
                   matrix, invMatrix, cursor, framePending, frame>>

\* onMouseUp(e)
onMouseUp ==
    /\ steps < MaxSteps
    /\ lastOffset' = Undefined
    /\ action' = NONE
    /\ lastEvent' = Event("mouseup", FALSE, 0, 0, 0, 0)
    /\ calls' = <<>>
    /\ steps' = steps + 1
    /\ dragStart' = <<>>
    /\ UNCHANGED <<nodes, edges, offset, scale, selected, hovered,
                   matrix, invMatrix, cursor, framePending, frame>>

\* Variant of the drag test: the selection is not looked at.
draggingIgnoresSelection(act, sel) ==
    act = MOVE

\* The test that sends onMouseMove into its drag branch.
dragging(act, sel) ==
    act = MOVE /\ Len(sel) > 0

\* The drag branch of onMouseMove: the store's nodes afterwards.
dragNodes(ns, sel, last, p, s) ==
    LET delta == Offset(RSub(p.x, last.x), RSub(p.y, last.y))
        node == selectedNode(sel, ns)
    IN  IF node # <<>> THEN moveNode(ns, node[1], delta, s) ELSE ns

\* Variant of checkHover: the hits are pushed without emptying the set.
checkHoverAppends(hov, ns, m, im, p) ==
    hov \o getSelection(ns, m, im, p)

\* checkHover(offset): the hover set afterwards.
checkHover(hov, ns, m, im, p) ==
    getSelection(ns, m, im, p)

\* onMouseMove(e)
onMouseMove ==
    \E pt \in Points :
        LET p == Offset(R(pt.x), R(pt.y))
        IN  /\ steps < MaxSteps
            /\ lastEvent' = Event("mousemove", FALSE, 0, 0, pt.x, pt.y)
            /\ steps' = steps + 1
            /\ IF dragging(action, selected)
               THEN IF lastOffset = Undefined
                    THEN \* this.lastOffset!.x throws
                         /\ calls' = <<Call("TypeError", 0)>>
                         /\ UNCHANGED <<nodes, lastOffset, hovered, cursor>>
                    ELSE /\ nodes' = dragNodes(nodes, selected, lastOffset[1],
                                               p, scale)
                         /\ lastOffset' = Defined(p)
                         /\ calls' = IF selectedNode(selected, nodes) # <<>>
                                     THEN <<Call("updateNode", 0)>>
                                     ELSE <<>>
                         /\ UNCHANGED <<hovered, cursor>>
               ELSE /\ hovered' = checkHover(hovered, nodes, matrix,
                                             invMatrix, p)
                    /\ cursor' = IF hoveredNode(hovered', nodes) # <<>>
                                 THEN "pointer" ELSE "default"
                    /\ calls' = <<>>
                    /\ UNCHANGED <<nodes, lastOffset>>
            /\ UNCHANGED <<edges, offset, scale, action, selected,
                           matrix, invMatrix, framePending, frame,
                           dragStart>>

\* render(), run as the pending animation-frame callback
render ==
    /\ framePending > 0
    /\ LET t == createMatrix(offset.x, offset.y, scale, 0)
       IN  /\ matrix' = t.matrix
           /\ invMatrix' = t.invMatrix
    /\ frame' = renderCalls(edges, nodes)
    /\ framePending' = framePending - 1 + Len(SelectSeq(frame', scheduled))
    /\ UNCHANGED <<nodes, edges, offset, scale, action, lastOffset,
                   selected, hovered, cursor, lastEvent, calls, steps,
                   dragStart>>

Next ==
    \/ import
    \/ deleteNode
    \/ onWheel
    \/ onMouseDown
    \/ onMouseUp
    \/ onMouseMove
    \/ render

Spec ==
    Init /\ [][Next]_vars

----------------------------------------------------------------------------
(* Properties *)

\* The step handles an input event or store operation of the given type.
Handled(type) ==
    steps' = steps + 1 /\ lastEvent'.type = type

\* The pointer position of the event the step handles.
EventPoint ==
    Offset(R(lastEvent'.offsetX), R(lastEvent'.offsetY))

\* The world point w lies in the rectangle of node n, bounds included.
InRect(w, n) ==
    /\ RLe(n.x, w.x) /\ RLe(w.x, RAdd(n.x, n.width))
    /\ RLe(n.y, w.y) /\ RLe(w.y, RAdd(n.y, n.height))

\* The indices of the store's nodes whose rectangle holds the world image
\* of screen point p.
HitIndices(ns, m, im, p) ==
    {i \in 1..Len(ns) : InRect(toWorld(m, im, p.x, p.y), ns[i])}

\* The ids of a sequence of ids, as a set.
IdSet(ids) ==
    {ids[k] : k \in 1..Len(ids)}

\* C1: after a press at a point inside exactly two nodes A and B, B later in
\* store order, the selection is [A, B] and selectedNode() is B; and a move
\* event handled while dragging changes the position of the primary
\* selected node only: every other node is left as it was, and no node
\* changes its id or size.
C1_PrimaryOnlyDragged ==
    [][ /\ Handled("mousedown") =>
             \A i, j \in 1..Len(nodes) :
                 (i < j /\ HitIndices(nodes, matrix, invMatrix, EventPoint)
                              = {i, j})
                 => /\ selected' = <<nodes[i].id, nodes[j].id>>
                    /\ selectedNode(selected', nodes') = <<nodes[j]>>
        /\ (Handled("mousemove") /\ action = MOVE /\ selected # <<>>) =>
             /\ Len(nodes') = Len(nodes)
             /\ selected' = selected
             /\ \A i \in 1..Len(nodes) :
                    /\ nodes[i].id # selected[Len(selected)]
                          => nodes'[i] = nodes[i]
                    /\ nodes'[i].id = nodes[i].id
                    /\ nodes'[i].width = nodes[i].width
                    /\ nodes'[i].height = nodes[i].height
      ]_vars

\* C1 witness: a drag after a press on A = 1 and B = 2 has moved B, A is
\* where it was.
C1_Witness ==
    /\ lastEvent.type = "mousemove"
    /\ action = MOVE
    /\ selected = <<1, 2>>
    /\ Len(nodes) = 2
    /\ nodes[1] = Node(1, 10, 10, 20, 20)
    /\ nodes[2].id = 2
    /\ nodes[2].x # R(20)

\* C2: a press leaves the selection equal to the hit-test result at the
\* press point (every selected id is the id of a node hit there), the mode
\* Move and the last offset equal to the press point, whatever they were.
C2_PressSelectsHits ==
    [][ Handled("mousedown") =>
          /\ selected' = getSelection(nodes', matrix', invMatrix', EventPoint)
          /\ IdSet(selected') =
                {nodes[i].id :
                    i \in HitIndices(nodes, matrix, invMatrix, EventPoint)}
          /\ action' = MOVE
          /\ lastOffset' = Defined(EventPoint)
      ]_vars

\* C2 witness: a press that hit nothing left the selection empty although
\* node 2 had been dragged, hence selected, before it.
C2_Witness ==
    /\ lastEvent.type = "mousedown"
    /\ action = MOVE
    /\ lastOffset # Undefined
    /\ selected = <<>>
    /\ Len(nodes) = 2
    /\ nodes[2].x # R(20)

\* C3: a move event handled while dragging adds (current point - last
\* offset) / scale to the position of the primary selected node and sets
\* the last offset to the current point; and after any run of drag moves
\* that follow a press the node's displacement since the press is
\* (current point - press point) / scale.
C3_DragDisplacement ==
    [][ ( /\ Handled("mousemove")
          /\ action = MOVE
          /\ selected # <<>>
          /\ lastOffset # Undefined
          /\ selectedNode(selected, nodes) # <<>> ) =>
          LET cur == EventPoint
              last == lastOffset[1]
              before == selectedNode(selected, nodes)[1]
              after == selectedNode(selected', nodes')[1]
          IN  /\ after.x = RAdd(before.x, RDiv(RSub(cur.x, last.x), scale))
              /\ after.y = RAdd(before.y, RDiv(RSub(cur.y, last.y), scale))
              /\ lastOffset' = Defined(cur)
              /\ dragStart # <<>> =>
                   /\ after.x = RAdd(dragStart[1].x,
                          RDiv(RSub(cur.x, dragStart[1].pt.x), scale))
                   /\ after.y = RAdd(dragStart[1].y,
                          RDiv(RSub(cur.y, dragStart[1].pt.y), scale))
      ]_vars

\* C4: a release leaves the last offset undefined and the mode Idle, and
\* the selection as it was.
C4_ReleaseKeepsSelection ==
    [][ Handled("mouseup") =>
          /\ lastOffset' = Undefined
          /\ action' = NONE
          /\ selected' = selected
      ]_vars

\* C4 witness: a release has been handled and a selection made by an
\* earlier press is still there.
C4_Witness ==
    /\ lastEvent.type = "mouseup"
    /\ lastOffset = Undefined
    /\ action = NONE
    /\ selected # <<>>

\* C5: a wheel event with ctrl held decreases the scale by deltaY * 0.01
\* and leaves the pan offset, the selection, the hover set and the nodes
\* unchanged; the mode is Idle when the handler returns.
C5_CtrlWheelZooms ==
    [][ (Handled("wheel") /\ lastEvent'.ctrlKey) =>
          /\ scale' = RSub(scale, Norm(lastEvent'.deltaY, 100))
          /\ offset' = offset
          /\ selected' = selected
          /\ hovered' = hovered
          /\ nodes' = nodes
          /\ action' = NONE
      ]_vars

\* C5 witness: a ctrl-wheel event with deltaY = -100 has raised the scale
\* to 2 with nodes in the store and a node selected.
C5_Witness ==
    /\ lastEvent.type = "wheel"
    /\ lastEvent.ctrlKey
    /\ lastEvent.deltaY = -100
    /\ scale = R(2)
    /\ action = NONE
    /\ selected # <<>>
    /\ nodes # <<>>

\* C6: a wheel event without ctrl decreases the pan offset by
\* (2 * deltaX, 2 * deltaY) and leaves the scale, the selection, the hover
\* set and the nodes unchanged; the mode is Idle when the handler returns.
C6_PlainWheelPans ==
    [][ (Handled("wheel") /\ ~lastEvent'.ctrlKey) =>
          /\ offset'.x = RSub(offset.x, R(2 * lastEvent'.deltaX))
          /\ offset'.y = RSub(offset.y, R(2 * lastEvent'.deltaY))
          /\ scale' = scale
          /\ selected' = selected
          /\ hovered' = hovered
          /\ nodes' = nodes
          /\ action' = NONE
      ]_vars

\* C6 witness: a plain wheel event with delta (5, 5) has brought the offset
\* from (0, 0) to (-10, -10) with a node selected.
C6_Witness ==
    /\ lastEvent.type = "wheel"
    /\ ~lastEvent.ctrlKey
    /\ lastEvent.deltaX = 5
    /\ lastEvent.deltaY = 5
    /\ offset = Offset(R(-10), R(-10))
    /\ action = NONE
    /\ selected # <<>>

\* The index in the store of the node with the given id (0 when none).
IndexOf(ns, id) ==
    IF \E i \in 1..Len(ns) : ns[i].id = id
    THEN CHOOSE i \in 1..Len(ns) : ns[i].id = id
    ELSE 0

\* C7: at every pointer position getSelection returns exactly the ids of
\* the nodes whose rectangle, bounds included, holds the world image of the
\* point, each id once, in store order; the empty sequence when no node is
\* hit.
C7_GetSelectionExact ==
    \A pt \in Points :
        LET p == Offset(R(pt.x), R(pt.y))
            r == getSelection(nodes, matrix, invMatrix, p)
            w == toWorld(matrix, invMatrix, p.x, p.y)
        IN  /\ \A i \in 1..Len(nodes) :
                   (nodes[i].id \in IdSet(r)) <=> InRect(w, nodes[i])
            /\ \A k \in 1..Len(r) : IndexOf(nodes, r[k]) # 0
            /\ \A k, l \in 1..Len(r) :
                   k < l => IndexOf(nodes, r[k]) < IndexOf(nodes, r[l])
            /\ (\A i \in 1..Len(nodes) : ~InRect(w, nodes[i])) => r = <<>>

\* C7 witness: a state with one pointer position on the bottom edge of a
\* node that getSelection returns, one inside two nodes and one outside
\* every node.
C7_Witness ==
    /\ Len(nodes) = 2
    /\ \E pt \in Points : \E i \in 1..Len(nodes) :
           LET p == Offset(R(pt.x), R(pt.y))
           IN  /\ toWorld(matrix, invMatrix, p.x, p.y).y
                     = RAdd(nodes[i].y, nodes[i].height)
               /\ nodes[i].id
                     \in IdSet(getSelection(nodes, matrix, invMatrix, p))
    /\ \E pt \in Points :
           Len(getSelection(nodes, matrix, invMatrix,
                            Offset(R(pt.x), R(pt.y)))) = 2
    /\ \E pt \in Points :
           getSelection(nodes, matrix, invMatrix,
                        Offset(R(pt.x), R(pt.y))) = <<>>

\* C8: after any sequence of wheel events the scale is strictly positive.
C8_ScalePositive ==
    IsFinite(scale) /\ scale[1] > 0

\* The calls of a sequence of calls, as a set.
CallSet(cs) ==
    {cs[k] : k \in 1..Len(cs)}

\* C9: a render frame over a store with an edge whose start or end node
\* does not resolve skips that edge and completes: every other edge and
\* every node is painted and nothing is thrown.
C9_FrameSkipsDanglingEdge ==
    [][ (steps' = steps) =>
          /\ ~threw(frame')
          /\ \A i \in 1..Len(nodes) : Call("renderNode", i) \in CallSet(frame')
          /\ \A j \in 1..Len(edges) :
                 ( /\ retrieveNode(nodes, edges[j].startNode) # <<>>
                   /\ retrieveNode(nodes, edges[j].endNode) # <<>> )
                 <=> Call("renderEdge", j) \in CallSet(frame')
      ]_vars

\* C10: every wheel event, press event and clear of the selection ends with
\* an onUpdate call, and every drag move that relocates a node calls
\* onUpdate after the node is updated.
C10_UpdateNotified ==
    /\ lastEvent.type \in {"wheel", "mousedown", "deleteNode"} =>
          calls # <<>> /\ calls[Len(calls)] = Call("onUpdate", 0)
    /\ lastEvent.type = "mousemove" =>
          \A k \in 1..Len(calls) :
              calls[k] = Call("updateNode", 0) =>
                  \E l \in (k + 1)..Len(calls) : calls[l] = Call("onUpdate", 0)

\* The transform createMatrix gives for the current offset and scale.
FreshTransform ==
    createMatrix(offset.x, offset.y, scale, 0)

\* C11: a wheel event recomputes the forward matrix and its inverse while it
\* is handled: right after it they are the ones of the new offset and scale,
\* so a hit test at any pointer position made before the next frame gives
\* what the new offset and scale give.
C11_WheelRecomputesTransform ==
    [][ Handled("wheel") =>
          /\ matrix' = FreshTransform'.matrix
          /\ invMatrix' = FreshTransform'.invMatrix
          /\ \A pt \in Points :
                 getSelection(nodes', matrix', invMatrix',
                              Offset(R(pt.x), R(pt.y)))
                 = getSelection(nodes', FreshTransform'.matrix,
                                FreshTransform'.invMatrix,
                                Offset(R(pt.x), R(pt.y)))
      ]_vars

----------------------------------------------------------------------------
(* Round trip of the transform: a specification that starts from any pan   *)
(* offset and zoom scale of the bounded input sets (as wheel events leave  *)
(* them) and runs render frames, which apply createMatrix.                 *)

Scales ==
    {Norm(n, d) : n \in (-MaxScaleNum)..MaxScaleNum, d \in 1..MaxScaleDen}

Coords ==
    {R(i) : i \in (-MaxCoord)..MaxCoord}

InitRoundTrip ==
    /\ nodes = <<>>
    /\ edges = <<>>
    /\ offset \in {Offset(x, y) : x \in Coords, y \in Coords}
    /\ scale \in Scales
    /\ action = NONE
    /\ lastOffset = Undefined
    /\ selected = <<>>
    /\ hovered = <<>>
    /\ matrix = createMatrix(R(0), R(0), R(1), 0).matrix
    /\ invMatrix = createMatrix(R(0), R(0), R(1), 0).invMatrix
    /\ cursor = ""
    /\ framePending = Len(SelectSeq(renderCalls(<<>>, <<>>), scheduled))
    /\ frame = renderCalls(<<>>, <<>>)
    /\ lastEvent = Event("wheel", FALSE, 0, 0, 0, 0)
    /\ calls = <<Call("onUpdate", 0)>>
    /\ steps = 0
    /\ dragStart = <<>>

SpecRoundTrip ==
    InitRoundTrip /\ [][render]_vars

\* The forward image of world point p: p * scale + offset.
Forward(p) ==
    Offset(RAdd(RMul(p.x, scale), offset.x), RAdd(RMul(p.y, scale), offset.y))

\* C12: when the scale is positive and matrix and invMatrix are what
\* createMatrix(offset.x, offset.y, scale, 0) leaves, toWorld maps the
\* forward image of every world point back to the point.
C12_RoundTrip ==
    ( /\ RLe(R(0), scale) /\ scale # R(0)
      /\ matrix = FreshTransform.matrix
      /\ invMatrix = FreshTransform.invMatrix ) =>
        \A x \in Coords, y \in Coords :
            toWorld(matrix, invMatrix, Forward(Offset(x, y)).x,
                    Forward(Offset(x, y)).y) = Offset(x, y)

\* C12 witness: a frame has computed the transform of scale 3/2 and offset
\* (2, -1).
C12_Witness ==
    /\ scale = Norm(3, 2)
    /\ offset = Offset(R(2), R(-1))
    /\ matrix[1] = scale
    /\ matrix[5] = R(2)
    /\ matrix = FreshTransform.matrix
    /\ invMatrix = FreshTransform.invMatrix

----------------------------------------------------------------------------
(* Properties, continued *)

\* C13: a move event handled while not dragging replaces the hover set by
\* the hit-test result at its point (the ids of the nodes hit there, nothing
\* else); the hit test at that point in the state it leaves gives the same
\* set, so a second such event there reproduces it; and the selection, the
\* nodes, the offset, the scale, the transform and the mode are unchanged.
C13_HoverReplaced ==
    [][ (Handled("mousemove") /\ ~(action = MOVE /\ selected # <<>>)) =>
          /\ hovered' = getSelection(nodes, matrix, invMatrix, EventPoint)
          /\ IdSet(hovered') =
                {nodes[i].id :
                    i \in HitIndices(nodes, matrix, invMatrix, EventPoint)}
          /\ Cardinality(IdSet(hovered')) = Len(hovered')
          /\ getSelection(nodes', matrix', invMatrix', EventPoint) = hovered'
          /\ selected' = selected
          /\ nodes' = nodes
          /\ offset' = offset
          /\ scale' = scale
          /\ matrix' = matrix
          /\ invMatrix' = invMatrix
          /\ action' = action
      ]_vars

\* C13 witness: after a release, with a node still selected, a move event
\* has set the hover set to the two nodes under the pointer.
C13_Witness ==
    /\ lastEvent.type = "mousemove"
    /\ action = NONE
    /\ selected # <<>>
    /\ Len(hovered) = 2
    /\ cursor = "pointer"

\* C14: in every state between handlers and frames the cached inverse is
\* the inverse of the linear part of the forward matrix: their product is
\* the identity.
C14_InverseInSync ==
    /\ RAdd(RMul(matrix[1], invMatrix[1]), RMul(matrix[3], invMatrix[2]))
          = R(1)
    /\ RAdd(RMul(matrix[2], invMatrix[1]), RMul(matrix[4], invMatrix[2]))
          = R(0)
    /\ RAdd(RMul(matrix[1], invMatrix[3]), RMul(matrix[3], invMatrix[4]))
          = R(0)
    /\ RAdd(RMul(matrix[2], invMatrix[3]), RMul(matrix[4], invMatrix[4]))
          = R(1)


\* C15 (as stated): after every press both the selection set and the hover
\* set hold only ids hit at the press point.
C15_PressClearsBoth ==
    [][ Handled("mousedown") =>
          /\ IdSet(selected') \subseteq
               {nodes[i].id :
                  i \in HitIndices(nodes, matrix, invMatrix, EventPoint)}
          /\ IdSet(hovered') \subseteq
               {nodes[i].id :
                  i \in HitIndices(nodes, matrix, invMatrix, EventPoint)}
      ]_vars

\* C15 (amended): a press empties the selection set and refills it with
\* ids hit at the press point only; the hover set is left as it was.
C15_PressClearsSelectionOnly ==
    [][ Handled("mousedown") =>
          /\ IdSet(selected') \subseteq
               {nodes[i].id :
                  i \in HitIndices(nodes, matrix, invMatrix, EventPoint)}
          /\ \A i \in 1..Len(selected') :
               \A j \in 1..Len(selected') :
                 selected'[i] = selected'[j] => i = j
          /\ hovered' = hovered
      ]_vars

\* A press away from the hovered nodes: the hover set still names them.
C15_Witness ==
    /\ lastEvent.type = "mousedown"
    /\ selected # <<>>
    /\ hovered # <<>>
    /\ ~ (IdSet(hovered) \subseteq
            {nodes[i].id :
               i \in HitIndices(nodes, matrix, invMatrix,
                                Offset(R(lastEvent.offsetX),
                                       R(lastEvent.offsetY)))})


\* C16 (as stated): a move while the mode is Move and the selection set is
\* empty changes nothing (selection, hover set, last offset, nodes, mode,
\* transform) and raises no error.
C16_EmptyMoveDoesNothing ==
    [][ (Handled("mousemove") /\ action = MOVE /\ selected = <<>>) =>
          /\ ~ threw(calls')
          /\ selected' = selected
          /\ hovered' = hovered
          /\ lastOffset' = lastOffset
          /\ nodes' = nodes
          /\ action' = action
          /\ offset' = offset /\ scale' = scale
          /\ matrix' = matrix /\ invMatrix' = invMatrix
      ]_vars

\* C16 (amended): such a move raises no error and leaves the selection,
\* the last offset, the nodes, the mode and the transform unchanged, but it
\* replaces the hover set by the hit-test at the move point.
C16_EmptyMoveOnlyHovers ==
    [][ (Handled("mousemove") /\ action = MOVE /\ selected = <<>>) =>
          /\ ~ threw(calls')
          /\ selected' = selected
          /\ hovered' = getSelection(nodes, matrix, invMatrix, EventPoint)
          /\ lastOffset' = lastOffset
          /\ nodes' = nodes
          /\ action' = action
          /\ offset' = offset /\ scale' = scale
          /\ matrix' = matrix /\ invMatrix' = invMatrix
      ]_vars

\* A move in mode Move with nothing selected that has filled the hover set
\* at a point other than the press point.
C16_Witness ==
    /\ lastEvent.type = "mousemove"
    /\ action = MOVE
    /\ selected = <<>>
    /\ hovered # <<>>
    /\ lastOffset # Undefined
    /\ lastOffset[1] # Offset(R(lastEvent.offsetX), R(lastEvent.offsetY))


\* The calls of a frame that runs to its end: identity transform, clear,
\* background, recomputed transform applied, every edge, every node, and
\* last the scheduling of the next frame.
FullFrame(es, ns) ==
    <<Call("setTransform", 0), Call("clearRect", 0),
      Call("renderBackground", 0), Call("createMatrix", 0),
      Call("setTransform", 1)>>
      \o [i \in 1..Len(es) |-> Call("renderEdge", i)]
      \o [i \in 1..Len(ns) |-> Call("renderNode", i)]
      \o <<Call("requestAnimationFrame", 0)>>

\* C17: every render frame performs its steps in the stated order (reset,
\* clear, background, transform from the current offset and scale, all
\* edges, all nodes), schedules the next frame only after the painting, and
\* leaves at most one frame pending.
C17_FrameOrder ==
    [][ steps' = steps =>
          /\ edges' = edges /\ nodes' = nodes
          /\ offset' = offset /\ scale' = scale
          /\ frame' = FullFrame(edges, nodes)
          /\ matrix' = FreshTransform.matrix
          /\ invMatrix' = FreshTransform.invMatrix
          /\ framePending' <= 1
      ]_vars

\* C18: the render loop never stops on its own: whatever the store holds
\* and whatever events arrive, a next frame is always scheduled.
C18_LoopAlive ==
    framePending > 0


\* C19: between handlers, mode = Move implies that the last offset is
\* defined, and no move handler has failed on an undefined last offset.
C19_MoveHasLastOffset ==
    /\ action = MOVE => lastOffset # Undefined
    /\ lastEvent.type = "mousemove" => ~ threw(calls)

\* The drag branch has run: a move in mode Move with a selection, which
\* read the last offset and moved the primary node.
C19_Witness ==
    /\ lastEvent.type = "mousemove"
    /\ action = MOVE
    /\ selected # <<>>
    /\ calls = <<Call("updateNode", 0)>>
    /\ lastOffset = Defined(Offset(R(lastEvent.offsetX),
                                   R(lastEvent.offsetY)))

\* C20: every id in the selection set resolves to a node of the store, so
\* selectedNode() returns a node whenever the selection is non-empty.
C20_SelectionResolves ==
    /\ \A i \in 1..Len(selected) : retrieveNode(nodes, selected[i]) # <<>>
    /\ selected # <<>> => selectedNode(selected, nodes) # <<>>

=============================================================================
